---- MODULE Spec2Model ----
(***************************************************************************)
(* A model of core/lib/models/src/tx/franklin_tx.rs: the FranklinTx union  *)
(* of the four zkSync transaction kinds, its projections, and the          *)
(* SignedFranklinTx envelope around it.                                    *)
(*                                                                         *)
(* A FranklinTx is a record with a `kind` field (the enum discriminant)    *)
(* and the fields of the boxed variant that this file reads.  Option<T> is *)
(* a sequence of length at most one: <<>> is None, <<x>> is Some(x).       *)
(***************************************************************************)
EXTENDS Integers, Sequences, FiniteSets, TLC

VARIABLES
    bare,       \* Option<FranklinTx>: the tx the builder holds, <<>> once moved
    signed,     \* Option<SignedFranklinTx>: <<>> until an envelope is built
    op,         \* the operation called last
    ret,        \* what that operation returned
    validated   \* history: "never", or the last result of check_correctness

vars == <<bare, signed, op, ret, validated>>

----------------------------------------------------------------------------
(* Bounds of the value domains.                                            *)
MaxAddress == 1
MaxNonce == 1
MaxToken == 1
MaxFee == 1

Address == 0..MaxAddress
Nonce == 0..MaxNonce
TokenId == 0..MaxToken
BigUint == 0..MaxFee

----------------------------------------------------------------------------
(* The variants.  Their structs live in crate::tx; the fields below are    *)
(* the ones franklin_tx.rs reads, plus `cached`, the derived value the     *)
(* per-variant validator may store.  Fields this file never reads (a       *)
(* Transfer's amount, the signatures) are left out.  A freshly built       *)
(* variant has cached = FALSE.                                             *)
Transfer ==
    [kind : {"Transfer"}, from : Address, to : Address, token : TokenId,
     fee : BigUint, nonce : Nonce, cached : BOOLEAN]

Withdraw ==
    [kind : {"Withdraw"}, from : Address, to : Address, token : TokenId,
     fee : BigUint, fast : BOOLEAN, nonce : Nonce, cached : BOOLEAN]

Close ==
    [kind : {"Close"}, account : Address, nonce : Nonce, cached : BOOLEAN]

ChangePubKey ==
    [kind : {"ChangePubKey"}, account : Address, nonce : Nonce, cached : BOOLEAN]

FranklinTx == Transfer \cup Withdraw \cup Close \cup ChangePubKey

EthSignData == [signature : {"sigA", "sigB"}, message : {"msg"}]

SignedFranklinTx == [tx : FranklinTx, eth_sign_data : {<<>>} \cup {<<e>> : e \in EthSignData}]

----------------------------------------------------------------------------
(* Collaborators outside franklin_tx.rs.                                   *)

(* The per-variant canonical encodings (Transfer::get_bytes, ...): a kind  *)
(* tag followed by the signed fields, one byte each.  `cached` is derived  *)
(* data and is not part of the encoding.                                   *)
Transfer_get_bytes(tx) == <<5, tx.from, tx.to, tx.token, tx.fee, tx.nonce>>

Withdraw_get_bytes(tx) ==
    <<3, tx.from, tx.to, tx.token, tx.fee, IF tx.fast THEN 1 ELSE 0, tx.nonce>>

Close_get_bytes(tx) == <<4, tx.account, tx.nonce>>

ChangePubKey_get_bytes(tx) == <<7, tx.account, tx.nonce>>

(* The per-variant validators (Transfer::check_correctness, ...), called   *)
(* on &mut of the boxed variant: they return a bool and may store a        *)
(* derived value in the variant.  The constraints they test are not part   *)
(* of this file, so the outcome `ok` and the stored value `c` are inputs.  *)
Transfer_check_correctness(tx, ok, c) == [self |-> [tx EXCEPT !.cached = c], result |-> ok]

Withdraw_check_correctness(tx, ok, c) == [self |-> [tx EXCEPT !.cached = c], result |-> ok]

Close_check_correctness(tx, ok, c) == [self |-> [tx EXCEPT !.cached = c], result |-> ok]

ChangePubKey_check_correctness(tx, ok, c) == [self |-> [tx EXCEPT !.cached = c], result |-> ok]

(* The chunk costs of the operations module.                               *)
TransferOp_CHUNKS == 2
WithdrawOp_CHUNKS == 6
CloseOp_CHUNKS == 1
ChangePubKeyOp_CHUNKS == 5

(* parity_crypto::digest::sha256: a fixed function from byte strings to    *)
(* digests of DigestLen bytes.  The model keeps what the callers rely on   *)
(* (a function of the bytes alone, of fixed length) with a small mixing    *)
(* function in place of the compression rounds.                            *)
DigestLen == 32

RECURSIVE Mix(_, _)
Mix(bytes, acc) ==
    IF bytes = <<>> THEN acc
    ELSE Mix(Tail(bytes), (acc * 31 + Head(bytes) + 1) % 65521)

sha256(bytes) ==
    LET m == Mix(bytes, 7)
    IN  [i \in 1..DigestLen |-> (m + 13 * i) % 256]

(* <[u8]>::copy_from_slice: panics unless both slices have the same        *)
(* length, and otherwise overwrites every byte of dst with src.            *)
copy_from_slice(dst, src) ==
    IF Len(src) # Len(dst)
    THEN [panic |-> "source slice length does not match destination slice length"]
    ELSE [data |-> [i \in 1..Len(dst) |-> src[i]]]

----------------------------------------------------------------------------
(* impl FranklinTx                                                         *)

TxHashLen == 32

(* Mutant: the digest is taken over the whole variant, derived data       *)
(* included, instead of over its canonical encoding.                       *)
hash_mut_cached(self) ==
    LET bytes == CASE self.kind = "Transfer" -> Transfer_get_bytes(self)
                   [] self.kind = "Withdraw" -> Withdraw_get_bytes(self)
                   [] self.kind = "Close" -> Close_get_bytes(self)
                   [] self.kind = "ChangePubKey" -> ChangePubKey_get_bytes(self)
        hash_ == sha256(bytes \o <<IF self.cached THEN 1 ELSE 0>>)
        out == [i \in 1..TxHashLen |-> 0]
    IN  copy_from_slice(out, hash_)

(* Mutant: hash refuses an instance whose validation did not succeed.      *)
hash_mut_gated(self) ==
    LET bytes == CASE self.kind = "Transfer" -> Transfer_get_bytes(self)
                   [] self.kind = "Withdraw" -> Withdraw_get_bytes(self)
                   [] self.kind = "Close" -> Close_get_bytes(self)
                   [] self.kind = "ChangePubKey" -> ChangePubKey_get_bytes(self)
        hash_ == sha256(bytes)
        out == [i \in 1..TxHashLen |-> 0]
    IN  IF validated = "true"
        THEN copy_from_slice(out, hash_)
        ELSE [panic |-> "transaction is not validated"]

hash(self) ==
    LET bytes == CASE self.kind = "Transfer" -> Transfer_get_bytes(self)
                   [] self.kind = "Withdraw" -> Withdraw_get_bytes(self)
                   [] self.kind = "Close" -> Close_get_bytes(self)
                   [] self.kind = "ChangePubKey" -> ChangePubKey_get_bytes(self)
        hash_ == sha256(bytes)
        out == [i \in 1..TxHashLen |-> 0]
    IN  copy_from_slice(out, hash_)

(* Mutant: a Transfer is attributed to its recipient.                      *)
account_mut(self) ==
    CASE self.kind = "Transfer" -> self.to
      [] self.kind = "Withdraw" -> self.from
      [] self.kind = "Close" -> self.account
      [] self.kind = "ChangePubKey" -> self.account

account(self) ==
    CASE self.kind = "Transfer" -> self.from
      [] self.kind = "Withdraw" -> self.from
      [] self.kind = "Close" -> self.account
      [] self.kind = "ChangePubKey" -> self.account

nonce(self) ==
    CASE self.kind = "Transfer" -> self.nonce
      [] self.kind = "Withdraw" -> self.nonce
      [] self.kind = "Close" -> self.nonce
      [] self.kind = "ChangePubKey" -> self.nonce

check_correctness(self, ok, c) ==
    CASE self.kind = "Transfer" -> Transfer_check_correctness(self, ok, c)
      [] self.kind = "Withdraw" -> Withdraw_check_correctness(self, ok, c)
      [] self.kind = "Close" -> Close_check_correctness(self, ok, c)
      [] self.kind = "ChangePubKey" -> ChangePubKey_check_correctness(self, ok, c)

get_bytes(self) ==
    CASE self.kind = "Transfer" -> Transfer_get_bytes(self)
      [] self.kind = "Withdraw" -> Withdraw_get_bytes(self)
      [] self.kind = "Close" -> Close_get_bytes(self)
      [] self.kind = "ChangePubKey" -> ChangePubKey_get_bytes(self)

(* Mutant: the chunk cost of a Withdraw depends on its fast flag.          *)
min_chunks_mut(self) ==
    CASE self.kind = "Transfer" -> TransferOp_CHUNKS
      [] self.kind = "Withdraw" -> IF self.fast THEN TransferOp_CHUNKS ELSE WithdrawOp_CHUNKS
      [] self.kind = "Close" -> CloseOp_CHUNKS
      [] self.kind = "ChangePubKey" -> ChangePubKeyOp_CHUNKS

min_chunks(self) ==
    CASE self.kind = "Transfer" -> TransferOp_CHUNKS
      [] self.kind = "Withdraw" -> WithdrawOp_CHUNKS
      [] self.kind = "Close" -> CloseOp_CHUNKS
      [] self.kind = "ChangePubKey" -> ChangePubKeyOp_CHUNKS

is_withdraw(self) ==
    CASE self.kind = "Withdraw" -> TRUE
      [] OTHER -> FALSE

(* Mutant: the Withdraw arm of is_withdraw copied into is_close.           *)
is_close_mut(self) ==
    CASE self.kind = "Close" -> TRUE
      [] self.kind = "Withdraw" -> TRUE
      [] OTHER -> FALSE

is_close(self) ==
    CASE self.kind = "Close" -> TRUE
      [] OTHER -> FALSE

(* Mutant: the two branches of the fast test swapped.                     *)
get_fee_info_mut(self) ==
    CASE self.kind = "Withdraw" ->
            LET fee_type == IF self.fast THEN "Withdraw" ELSE "FastWithdraw"
            IN  << <<fee_type, [Id |-> self.token], self.to, self.fee>> >>
      [] self.kind = "Transfer" ->
            << <<"Transfer", [Id |-> self.token], self.to, self.fee>> >>
      [] OTHER -> <<>>

get_fee_info(self) ==
    CASE self.kind = "Withdraw" ->
            LET fee_type == IF self.fast THEN "FastWithdraw" ELSE "Withdraw"
            IN  << <<fee_type, [Id |-> self.token], self.to, self.fee>> >>
      [] self.kind = "Transfer" ->
            << <<"Transfer", [Id |-> self.token], self.to, self.fee>> >>
      [] OTHER -> <<>>

----------------------------------------------------------------------------
(* SignedFranklinTx                                                        *)

(* Mutant: the envelope built from a bare tx carries signature metadata.   *)
From_mut(tx) ==
    [tx |-> tx, eth_sign_data |-> <<[signature |-> "sigA", message |-> "msg"]>>]

(* impl From<FranklinTx> for SignedFranklinTx                              *)
From(tx) == [tx |-> tx, eth_sign_data |-> <<>>]

(* impl Deref for SignedFranklinTx: a shared reference to the inner tx.    *)
Deref(self) == self.tx

(* Mutant: the envelope's hash covers the presence of eth_sign_data.       *)
SignedFranklinTx_hash_mut(self) ==
    copy_from_slice([i \in 1..TxHashLen |-> 0],
                    sha256(get_bytes(self.tx) \o <<Len(self.eth_sign_data)>>))

(* signed.hash(): FranklinTx::hash reached through Deref.                  *)
SignedFranklinTx_hash(self) == hash(Deref(self))

(* A struct literal SignedFranklinTx { tx, eth_sign_data }: both fields    *)
(* are pub, so an envelope with signature metadata is built this way.      *)
SignedFranklinTx_new(tx, eth_sign_data) == [tx |-> tx, eth_sign_data |-> eth_sign_data]

----------------------------------------------------------------------------
(* The state machine: one holder builds a FranklinTx, may wrap it, and     *)
(* calls the operations of this file on it in any order.                   *)

(* The FranklinTx the calls act on: the bare one, or the envelope's,       *)
(* reached through Deref.                                                  *)
Self == IF signed = <<>> THEN bare[1] ELSE Deref(signed[1])

Init ==
    /\ bare \in {<<tx>> : tx \in {t \in FranklinTx : ~t.cached}}
    /\ signed = <<>>
    /\ op = "build"
    /\ ret = <<>>
    /\ validated = "never"

(* Both constructors take the tx by value: the bare tx is moved.           *)
FromCall ==
    /\ signed = <<>>
    /\ signed' = <<From(bare[1])>>
    /\ bare' = <<>>
    /\ op' = "from"
    /\ ret' = From(bare[1])
    /\ UNCHANGED validated

NewCall ==
    /\ signed = <<>>
    /\ \E e \in EthSignData :
          /\ signed' = <<SignedFranklinTx_new(bare[1], <<e>>)>>
          /\ ret' = SignedFranklinTx_new(bare[1], <<e>>)
    /\ bare' = <<>>
    /\ op' = "new"
    /\ UNCHANGED validated

(* Mutant: hash() stores derived data in the instance it is called on.     *)
HashCall_mut ==
    /\ op' = "hash"
    /\ ret' = IF signed = <<>> THEN hash(bare[1]) ELSE SignedFranklinTx_hash(signed[1])
    /\ IF signed = <<>>
       THEN bare' = <<[bare[1] EXCEPT !.cached = TRUE]>> /\ signed' = signed
       ELSE signed' = <<[signed[1] EXCEPT !.tx.cached = TRUE]>> /\ bare' = bare
    /\ UNCHANGED validated

HashCall ==
    /\ op' = "hash"
    /\ ret' = IF signed = <<>> THEN hash(bare[1]) ELSE SignedFranklinTx_hash(signed[1])
    /\ UNCHANGED <<bare, signed, validated>>

AccountCall ==
    /\ op' = "account"
    /\ ret' = account(Self)
    /\ UNCHANGED <<bare, signed, validated>>

(* Mutant: nonce() takes the nonce out of the envelope's tx.               *)
NonceCall_mut ==
    /\ op' = "nonce"
    /\ ret' = nonce(Self)
    /\ IF signed = <<>>
       THEN bare' = <<[bare[1] EXCEPT !.nonce = 0]>> /\ signed' = signed
       ELSE signed' = <<[signed[1] EXCEPT !.tx.nonce = 0]>> /\ bare' = bare
    /\ UNCHANGED validated

NonceCall ==
    /\ op' = "nonce"
    /\ ret' = nonce(Self)
    /\ UNCHANGED <<bare, signed, validated>>

(* check_correctness takes &mut self: on an envelope it is reached through *)
(* the pub field, signed.tx.check_correctness(), as Deref lends only &.    *)
CheckCorrectnessCall ==
    /\ \E ok \in BOOLEAN, c \in BOOLEAN :
          LET r == check_correctness(Self, ok, c)
          IN  /\ IF signed = <<>>
                 THEN bare' = <<r.self>> /\ signed' = signed
                 ELSE signed' = <<[signed[1] EXCEPT !.tx = r.self]>> /\ bare' = bare
              /\ ret' = r.result
              /\ validated' = IF r.result THEN "true" ELSE "false"
    /\ op' = "check_correctness"

GetBytesCall ==
    /\ op' = "get_bytes"
    /\ ret' = get_bytes(Self)
    /\ UNCHANGED <<bare, signed, validated>>

MinChunksCall ==
    /\ op' = "min_chunks"
    /\ ret' = min_chunks(Self)
    /\ UNCHANGED <<bare, signed, validated>>

IsWithdrawCall ==
    /\ op' = "is_withdraw"
    /\ ret' = is_withdraw(Self)
    /\ UNCHANGED <<bare, signed, validated>>

IsCloseCall ==
    /\ op' = "is_close"
    /\ ret' = is_close(Self)
    /\ UNCHANGED <<bare, signed, validated>>

GetFeeInfoCall ==
    /\ op' = "get_fee_info"
    /\ ret' = get_fee_info(Self)
    /\ UNCHANGED <<bare, signed, validated>>

Next ==
    \/ FromCall
    \/ NewCall
    \/ HashCall
    \/ AccountCall
    \/ NonceCall
    \/ CheckCorrectnessCall
    \/ GetBytesCall
    \/ MinChunksCall
    \/ IsWithdrawCall
    \/ IsCloseCall
    \/ GetFeeInfoCall

Spec == Init /\ [][Next]_vars

(* `pub tx`: the holder of a mutable envelope may assign the field.  The   *)
(* values assigned are the transactions of the specification's scenarios.  *)
ScenarioTxs ==
    { [kind |-> "Transfer", from |-> 10, to |-> 11, token |-> 5, fee |-> 10,
       nonce |-> 3, cached |-> FALSE],
      [kind |-> "Withdraw", from |-> 10, to |-> 12, token |-> 2, fee |-> 7,
       fast |-> TRUE, nonce |-> 4, cached |-> FALSE],
      [kind |-> "Close", account |-> 10, nonce |-> 5, cached |-> FALSE],
      [kind |-> "ChangePubKey", account |-> 10, nonce |-> 6, cached |-> FALSE] }

SetTx ==
    /\ signed # <<>>
    /\ \E tx \in ScenarioTxs : signed' = <<[signed[1] EXCEPT !.tx = tx]>>
    /\ op' = "set_tx"
    /\ ret' = <<>>
    /\ validated' = "never"
    /\ UNCHANGED bare

NextPub == Next \/ SetTx

SpecPub == Init /\ [][NextPub]_vars

----------------------------------------------------------------------------
(* Properties.                                                             *)

ReadOps ==
    {"hash", "get_bytes", "account", "nonce", "min_chunks", "is_withdraw",
     "is_close", "get_fee_info"}

Kinds == {"Transfer", "Withdraw", "Close", "ChangePubKey"}

(* C1: get_fee_info returns, for Withdraw, Some((FastWithdraw if fast else *)
(* Withdraw, TokenLike::Id(token), to, fee)); for Transfer,                *)
(* Some((Transfer, TokenLike::Id(token), to, fee)); for Close and          *)
(* ChangePubKey, None.  FastWithdraw is returned exactly for a Withdraw    *)
(* with fast = true.                                                       *)
C1_FeeInfo ==
    op = "get_fee_info" =>
        /\ Self.kind = "Withdraw" =>
              /\ Self.fast => ret = << <<"FastWithdraw", [Id |-> Self.token], Self.to, Self.fee>> >>
              /\ ~Self.fast => ret = << <<"Withdraw", [Id |-> Self.token], Self.to, Self.fee>> >>
        /\ Self.kind = "Transfer" =>
              ret = << <<"Transfer", [Id |-> Self.token], Self.to, Self.fee>> >>
        /\ Self.kind \in {"Close", "ChangePubKey"} => ret = <<>>
        /\ (ret # <<>> /\ ret[1][1] = "FastWithdraw") <=> (Self.kind = "Withdraw" /\ Self.fast)

C1_Witness ==
    /\ op = "get_fee_info"
    /\ Self.kind = "Withdraw"
    /\ Self.fast
    /\ ret # <<>>
    /\ ret[1][1] = "FastWithdraw"

(* C2: is_withdraw() is true iff the variant is Withdraw, is_close() is    *)
(* true iff the variant is Close, both are false for Transfer and          *)
(* ChangePubKey, and they are never both true.                             *)
C2_Predicates ==
    /\ op = "is_withdraw" => ret = (Self.kind = "Withdraw")
    /\ op = "is_close" => ret = (Self.kind = "Close")
    /\ is_withdraw(Self) <=> Self.kind = "Withdraw"
    /\ is_close(Self) <=> Self.kind = "Close"
    /\ Self.kind \in {"Transfer", "ChangePubKey"} => ~is_withdraw(Self) /\ ~is_close(Self)
    /\ ~(is_withdraw(Self) /\ is_close(Self))

C2_Witness ==
    /\ op = "is_close"
    /\ Self.kind = "Close"
    /\ ret = TRUE

(* C3: hash is deterministic.  A hash() call returns the full 32-byte      *)
(* digest of exactly the bytes get_bytes() returns; a repeated call on the *)
(* unchanged instance returns the same value; and the instances before and *)
(* after any step whose encodings are equal have equal hashes.             *)
C3_HashDeterministic ==
    [][ /\ (Self' # Self /\ get_bytes(Self') = get_bytes(Self)) => hash(Self') = hash(Self)
        /\ op' = "hash" =>
              /\ ret' = [data |-> sha256(get_bytes(Self'))]
              /\ Len(ret'.data) = 32
        /\ (op = "hash" /\ op' = "hash" /\ Self' = Self) => ret' = ret ]_vars

C3_Witness ==
    /\ op = "hash"
    /\ validated = "true"
    /\ Self.cached
    /\ ret = [data |-> sha256(get_bytes(Self))]

(* C4, as claimed: the only operation that changes the inner FranklinTx    *)
(* of an envelope is check_correctness.                                    *)
C4_OnlyValidatorMutates ==
    [][ (signed # <<>> /\ signed' # <<>> /\ signed'[1].tx # signed[1].tx)
            => op' = "check_correctness" ]_vars

(* C4, amended: the read projections reached through Deref never change    *)
(* the inner FranklinTx; it changes only by check_correctness or by an     *)
(* assignment to the public field tx.                                      *)
C4_MutationPaths ==
    [][ (signed # <<>> /\ signed' # <<>> /\ signed'[1].tx # signed[1].tx)
            => op' \in {"check_correctness", "set_tx"} ]_vars

C4_Witness ==
    /\ signed # <<>>
    /\ op = "set_tx"
    /\ signed[1].tx \in ScenarioTxs

(* C5: From<FranklinTx> yields an envelope whose eth_sign_data is None and *)
(* whose tx is the given variant unchanged, for each of the 4 kinds.       *)
C5_FromBare ==
    [][ op' = "from" =>
            /\ signed' = <<[tx |-> bare[1], eth_sign_data |-> <<>>]>>
            /\ ret' = signed'[1]
            /\ Deref(signed'[1]) = bare[1] ]_vars

C5_Witness ==
    /\ op = "from"
    /\ signed # <<>>
    /\ signed[1].eth_sign_data = <<>>
    /\ signed[1].tx.kind = "ChangePubKey"

(* The value a read projection returns on tx.                              *)
Projection(o, tx) ==
    CASE o = "hash" -> hash(tx)
      [] o = "get_bytes" -> get_bytes(tx)
      [] o = "account" -> account(tx)
      [] o = "nonce" -> nonce(tx)
      [] o = "min_chunks" -> min_chunks(tx)
      [] o = "is_withdraw" -> is_withdraw(tx)
      [] o = "is_close" -> is_close(tx)
      [] o = "get_fee_info" -> get_fee_info(tx)

(* C6: the read projections have no side effects: each leaves the variant, *)
(* all its fields and the envelope's eth_sign_data unchanged, and returns  *)
(* what the instance's current value determines, whatever was called       *)
(* before.                                                                 *)
C6_ReadsArePure ==
    [][ op' \in ReadOps =>
            /\ bare' = bare
            /\ signed' = signed
            /\ ret' = Projection(op', Self) ]_vars

C6_Witness ==
    /\ op = "get_fee_info"
    /\ signed # <<>>
    /\ signed[1].eth_sign_data # <<>>
    /\ validated = "true"

(* C7: exhaustiveness.  For each of the 4 kinds and any field values each  *)
(* of hash, account, nonce, min_chunks, get_fee_info, is_withdraw and      *)
(* is_close returns a defined result (hash does not panic); account        *)
(* returns `from` for Transfer/Withdraw and `account` for                  *)
(* Close/ChangePubKey, and nonce returns the variant's nonce.              *)
C7_Exhaustive ==
    /\ Self.kind \in Kinds
    /\ op = "hash" => ret \in [data : [1..32 -> 0..255]]
    /\ op = "account" =>
          ret = IF Self.kind \in {"Transfer", "Withdraw"} THEN Self.from ELSE Self.account
    /\ op = "nonce" => ret = Self.nonce
    /\ op = "min_chunks" => ret \in Nat
    /\ op = "get_fee_info" =>
          /\ Len(ret) <= 1
          /\ ret # <<>> => ret[1][1] \in {"Transfer", "Withdraw", "FastWithdraw"}
    /\ op \in {"is_withdraw", "is_close"} => ret \in BOOLEAN

C7_Witness ==
    /\ op = "account"
    /\ Self.kind = "Close"
    /\ ret = Self.account

(* The instances that differ from tx only in field values, not in kind.    *)
FieldVariants(tx) ==
    {[tx EXCEPT !.nonce = n, !.cached = c] : n \in Nonce, c \in BOOLEAN}
    \cup (IF tx.kind = "Withdraw" THEN {[tx EXCEPT !.fast = ~tx.fast]} ELSE {})
    \cup (IF tx.kind \in {"Transfer", "Withdraw"}
          THEN {[tx EXCEPT !.fee = f, !.token = k] : f \in BigUint, k \in TokenId}
          ELSE {[tx EXCEPT !.account = a] : a \in Address})

C9_NoValidationGate ==
    /\ (op = "hash" /\ validated # "true") =>
          /\ ret = [data |-> sha256(get_bytes(Self))]
          /\ ret = hash(check_correctness(Self, TRUE, Self.cached).self)
    /\ (op = "get_fee_info" /\ validated # "true") =>
          /\ ret = get_fee_info(check_correctness(Self, TRUE, Self.cached).self)
          /\ Self.kind \in {"Transfer", "Withdraw"} => ret # <<>>
    /\ op = "check_correctness" => (ret = FALSE <=> validated = "false")
    /\ validated = "false" => \A o \in ReadOps : o = op => ret = Projection(o, Self)

C9_Witness ==
    /\ op = "hash"
    /\ validated = "false"
    /\ ret = [data |-> sha256(get_bytes(Self))]

(* C10: the hash of an envelope does not cover eth_sign_data.  Envelopes   *)
(* with the same inner tx and different eth_sign_data have the same hash,  *)
(* account, nonce, min_chunks and get_fee_info.                            *)
C10_HashIgnoresEthSignData ==
    signed # <<>> =>
        \A e \in {<<>>} \cup {<<d>> : d \in EthSignData} :
            LET other == [signed[1] EXCEPT !.eth_sign_data = e]
            IN  /\ SignedFranklinTx_hash(other) = SignedFranklinTx_hash(signed[1])
                /\ SignedFranklinTx_hash(other) = hash(signed[1].tx)
                /\ account(Deref(other)) = account(Deref(signed[1]))
                /\ nonce(Deref(other)) = nonce(Deref(signed[1]))
                /\ min_chunks(Deref(other)) = min_chunks(Deref(signed[1]))
                /\ get_fee_info(Deref(other)) = get_fee_info(Deref(signed[1]))

C10_Witness ==
    /\ signed # <<>>
    /\ signed[1].eth_sign_data # <<>>
    /\ op = "hash"
    /\ ret = hash(signed[1].tx)

====
